---- MODULE Spec2Model ----
(***************************************************************************)
(* testApp.py: a Streamlit page that downloads a satellite tile for a      *)
(* bounding box, segments it (SamGeo or LangSAM) and shows / exports the   *)
(* result.  Streamlit executes the whole script once per interaction;      *)
(* pc is the position of the current script run, "idle" between runs.      *)
(* Only st.session_state survives from one script run to the next.         *)
(***************************************************************************)
EXTENDS Integers, Sequences, FiniteSets, TLC

VARIABLES
    session_state,   \* st.session_state: a mapping, empty before the first run
    process_type,    \* sidebar radio (line 30)
    text_prompt,     \* sidebar text input (line 37), default when not shown
    box_threshold,   \* sidebar slider (line 38), in hundredths
    text_threshold,  \* sidebar slider (line 39), in hundredths
    bbox,            \* [left, bottom, right, top] (line 49), in 1e-5 degrees
    disk,            \* the files present in the working directory
    archive,         \* the entry names of segmentation_shp.zip
    pc,              \* position of the script run
    trigger,         \* what started the script run
    todo,            \* the files the cleanup loop (line 60) has still to visit
    start_time,      \* local of the run handler (lines 71, 111)
    duration,        \* local of the run handler (lines 96, 135)
    sam,             \* local of the run handler (lines 72, 112)
    ui,              \* what the script run has put on the page so far
    calls,           \* the library calls the script run has made, in order
    raised,          \* the call that raised in the script run, or "none"
    pre,             \* history: session_state when the run button was pressed
    ran              \* history: the widget values of the run that stored results

vars == <<session_state, process_type, text_prompt, box_threshold,
          text_threshold, bbox, disk, archive, pc, trigger, todo, start_time,
          duration, sam, ui, calls, raised, pre, ran>>

-----------------------------------------------------------------------------
(* Bounds of the model *)

\* time.time() readings are drawn from 0..MaxClock
MaxClock == 2

-----------------------------------------------------------------------------
(* Values *)

None == [kind |-> "None"]

Automatic == "Automatische Segmentierung"
TextPrompt == "Text-Prompt Suche"
ProcessTypes == {Automatic, TextPrompt}

DefaultPrompt == "tree"
Prompts == {"tree", "car"}

DefaultThreshold == 24
Thresholds == {24, 100}

DefaultBBox == <<1338000, 5246436, 1338320, 5246720>>
BBoxes == {DefaultBBox, <<1338320, 5246436, 1338000, 5246720>>}

\* a path is <<directory, stem, extension>>
tiff_path == <<".", "satellite", ".tif">>
mask_path == <<".", "masks", ".tif">>
vector_path == <<".", "masks", ".shp">>
vis_path == <<".", "visualization", ".png">>
zip_path == <<".", "segmentation_shp", ".zip">>

\* os.path.splitext(p)[0]
SplitextBase(p) == <<p[1], p[2]>>
\* base + ext
WithExt(base, ext) == <<base[1], base[2], ext>>
\* os.path.basename(p)
Basename(p) == <<p[2], p[3]>>

extensions == <<".shp", ".shx", ".dbf", ".prj">>

\* what raster_to_vector leaves on disk for a shapefile path
VectorFiles(p) ==
    {WithExt(SplitextBase(p), e) : e \in {".shp", ".shx", ".dbf", ".prj", ".cpg"}}

Files == {tiff_path, mask_path, vis_path, zip_path} \cup VectorFiles(vector_path)

NoSam == [cls |-> "none", made |-> "none"]
SamGeoVitH == [cls |-> "SamGeo", made |-> "run"]
LangSAMHandle == [cls |-> "LangSAM", made |-> "run"]
SamGeoDefault == [cls |-> "SamGeo", made |-> "panel"]

NoHeader == <<>>
BlankUI == [map |-> FALSE, success |-> -1, header |-> NoHeader,
            palette |-> "none", handle |-> NoSam, downloads |-> FALSE,
            reset |-> FALSE, error |-> FALSE]

NoRun == [process_type |-> "none", text_prompt |-> "none"]

Append1(s, e) == s \o <<e>>

Called(c) == \E k \in 1..Len(calls) : calls[k] = c

-----------------------------------------------------------------------------
(* Streamlit's execution model *)

\* a script run starts at the top with fresh locals and an empty page
StartScript(t) ==
    /\ pc' = "init"
    /\ trigger' = t
    /\ todo' = <<>>
    /\ start_time' = 0
    /\ duration' = 0
    /\ sam' = NoSam
    /\ ui' = BlankUI
    /\ calls' = <<>>
    /\ raised' = "none"

\* an uncaught exception ends the script run; the page shows the traceback
Raise(c) ==
    /\ pc' = "idle"
    /\ raised' = c
    /\ ui' = [ui EXCEPT !.error = TRUE]

Locals == <<todo, start_time, duration, sam>>
Widgets == <<process_type, text_prompt, box_threshold, text_threshold, bbox>>
History == <<pre, ran>>

-----------------------------------------------------------------------------
(* Interactions: each one re-executes the script *)

EditBoundingBox ==
    /\ pc = "idle"
    /\ \E b \in BBoxes \ {bbox} : bbox' = b
    /\ StartScript("widget")
    /\ UNCHANGED <<session_state, process_type, text_prompt, box_threshold,
                   text_threshold, disk, archive, pre, ran>>

\* the prompt field and the sliders exist only in text-prompt mode (line 36);
\* a widget that is not drawn loses its value and comes back with its default
SwitchMode ==
    /\ pc = "idle"
    /\ \E m \in ProcessTypes \ {process_type} : process_type' = m
    /\ text_prompt' = DefaultPrompt
    /\ box_threshold' = DefaultThreshold
    /\ text_threshold' = DefaultThreshold
    /\ StartScript("widget")
    /\ UNCHANGED <<session_state, bbox, disk, archive, pre, ran>>

EditPrompt ==
    /\ pc = "idle"
    /\ process_type = TextPrompt
    /\ \E p \in Prompts \ {text_prompt} : text_prompt' = p
    /\ StartScript("widget")
    /\ UNCHANGED <<session_state, process_type, box_threshold, text_threshold,
                   bbox, disk, archive, pre, ran>>

MoveBoxThreshold ==
    /\ pc = "idle"
    /\ process_type = TextPrompt
    /\ \E v \in Thresholds \ {box_threshold} : box_threshold' = v
    /\ StartScript("widget")
    /\ UNCHANGED <<session_state, process_type, text_prompt, text_threshold,
                   bbox, disk, archive, pre, ran>>

MoveTextThreshold ==
    /\ pc = "idle"
    /\ process_type = TextPrompt
    /\ \E v \in Thresholds \ {text_threshold} : text_threshold' = v
    /\ StartScript("widget")
    /\ UNCHANGED <<session_state, process_type, text_prompt, box_threshold,
                   bbox, disk, archive, pre, ran>>

PressRun ==
    /\ pc = "idle"
    /\ pre' = session_state
    /\ StartScript("run")
    /\ UNCHANGED <<session_state, Widgets, disk, archive, ran>>

PressDownload ==
    /\ pc = "idle"
    /\ ui.downloads
    /\ StartScript("download")
    /\ UNCHANGED <<session_state, Widgets, disk, archive, pre, ran>>

PressReset ==
    /\ pc = "idle"
    /\ ui.reset
    /\ StartScript("reset")
    /\ UNCHANGED <<session_state, Widgets, disk, archive, pre, ran>>

-----------------------------------------------------------------------------
(* The script, top to bottom *)

\* lines 16-19
InitializeState(s) ==
    [k \in DOMAIN s \cup {"results", "map_visible"} |->
        IF k \in DOMAIN s THEN s[k]
        ELSE IF k = "results" THEN None ELSE TRUE]

Initialize ==
    /\ pc = "init"
    /\ session_state' = InitializeState(session_state)
    /\ pc' = "input"
    /\ UNCHANGED <<Widgets, disk, archive, trigger, Locals, ui, calls, raised,
                   History>>

\* lines 22-50: the map (only while map_visible), the sidebar, the bbox form
RenderInputPanel ==
    /\ pc = "input"
    /\ ui' = [ui EXCEPT !.map = session_state.map_visible]
    /\ pc' = "run_button"
    /\ UNCHANGED <<session_state, Widgets, disk, archive, trigger, Locals,
                   calls, raised, History>>

\* mutant: the vector file is left out of the cleanup
OldFiles_WithoutVector == <<tiff_path, mask_path>>

\* line 60: the list the cleanup loop goes through
OldFiles == <<tiff_path, mask_path, vector_path>>

\* mutant: pressing the run button clears the old results first
RunButton_ClearsResults ==
    /\ pc = "run_button"
    /\ IF trigger = "run"
       THEN /\ pc' = "cleanup"
            /\ todo' = OldFiles
            /\ session_state' = [session_state EXCEPT !.results = None,
                                                      !.map_visible = TRUE]
       ELSE /\ pc' = "results"
            /\ todo' = todo
            /\ UNCHANGED session_state
    /\ UNCHANGED <<Widgets, disk, archive, trigger, start_time, duration, sam,
                   ui, calls, raised, History>>

\* mutant: the handler is not guarded by the button
RunButton_NoGuard ==
    /\ pc = "run_button"
    /\ pc' = "cleanup"
    /\ todo' = OldFiles
    /\ UNCHANGED <<session_state, Widgets, disk, archive, trigger, start_time,
                   duration, sam, ui, calls, raised, History>>

\* line 53: st.button is True only in the script run its click started
RunButton ==
    /\ pc = "run_button"
    /\ IF trigger = "run"
       THEN /\ pc' = "cleanup"
            /\ todo' = OldFiles
       ELSE /\ pc' = "results"
            /\ todo' = todo
    /\ UNCHANGED <<session_state, Widgets, disk, archive, trigger, start_time,
                   duration, sam, ui, calls, raised, History>>

AfterCleanup(rest) == IF rest = <<>> THEN "download" ELSE "cleanup"

\* mutant: a failed os.remove is swallowed and the loop goes on
RemoveOldFile_IgnoresFailure ==
    /\ pc = "cleanup"
    /\ todo # <<>>
    /\ \/ /\ Head(todo) \notin disk
          /\ UNCHANGED <<disk, calls, raised>>
       \/ /\ Head(todo) \in disk
          /\ disk' = disk \ {Head(todo)}
          /\ calls' = Append1(calls, "os.remove")
          /\ UNCHANGED raised
       \/ /\ Head(todo) \in disk
          /\ calls' = Append1(calls, "os.remove")
          /\ raised' = "os.remove"
          /\ UNCHANGED disk
    /\ todo' = Tail(todo)
    /\ pc' = AfterCleanup(Tail(todo))
    /\ UNCHANGED <<session_state, Widgets, archive, trigger, start_time,
                   duration, sam, ui, History>>

\* lines 60-61: one iteration of the loop; os.remove is not guarded
RemoveOldFile ==
    /\ pc = "cleanup"
    /\ todo # <<>>
    /\ \/ /\ Head(todo) \notin disk
          /\ todo' = Tail(todo)
          /\ pc' = AfterCleanup(Tail(todo))
          /\ UNCHANGED <<disk, calls, raised, ui>>
       \/ /\ Head(todo) \in disk
          /\ disk' = disk \ {Head(todo)}
          /\ calls' = Append1(calls, "os.remove")
          /\ todo' = Tail(todo)
          /\ pc' = AfterCleanup(Tail(todo))
          /\ UNCHANGED <<raised, ui>>
       \/ /\ Head(todo) \in disk
          /\ calls' = Append1(calls, "os.remove")
          /\ Raise("os.remove")
          /\ UNCHANGED <<disk, todo>>
    /\ UNCHANGED <<session_state, Widgets, archive, trigger, start_time,
                   duration, sam, History>>

\* mutant: the map is hidden before the download instead of after the run
DownloadTile_HidesMapFirst ==
    /\ pc = "download"
    /\ session_state' = [session_state EXCEPT !.map_visible = FALSE]
    /\ calls' = Append1(calls, "map_tiles_to_geotiff")
    /\ \/ /\ disk' = disk \cup {tiff_path}
          /\ pc' = "segment"
          /\ UNCHANGED <<raised, ui>>
       \/ /\ disk' \in {disk, disk \cup {tiff_path}}
          /\ Raise("map_tiles_to_geotiff")
    /\ UNCHANGED <<Widgets, archive, trigger, Locals, History>>

\* lines 64-66: a failed download may leave a partial file behind
DownloadTile ==
    /\ pc = "download"
    /\ calls' = Append1(calls, "map_tiles_to_geotiff")
    /\ \/ /\ disk' = disk \cup {tiff_path}
          /\ pc' = "segment"
          /\ UNCHANGED <<raised, ui>>
       \/ /\ disk' \in {disk, disk \cup {tiff_path}}
          /\ Raise("map_tiles_to_geotiff")
    /\ UNCHANGED <<session_state, Widgets, archive, trigger, Locals, History>>

\* a later time.time() reading is not below an earlier one
Readings(t0) == {t \in 0..MaxClock : t >= t0}

\* line 68 (automatic branch), line 71
AutoStartTime ==
    /\ pc = "segment"
    /\ process_type = Automatic
    /\ \E t \in 0..MaxClock : start_time' = t
    /\ calls' = Append1(calls, "time.time")
    /\ pc' = "auto_model"
    /\ UNCHANGED <<session_state, Widgets, disk, archive, trigger, todo,
                   duration, sam, ui, raised, History>>

\* lines 72-79
AutoConstruct ==
    /\ pc = "auto_model"
    /\ calls' = Append1(calls, "SamGeo")
    /\ \/ /\ sam' = SamGeoVitH
          /\ pc' = "auto_generate"
          /\ UNCHANGED <<raised, ui>>
       \/ /\ Raise("SamGeo")
          /\ UNCHANGED sam
    /\ UNCHANGED <<session_state, Widgets, disk, archive, trigger, todo,
                   start_time, duration, History>>

\* line 80
AutoGenerate ==
    /\ pc = "auto_generate"
    /\ calls' = Append1(calls, "generate")
    /\ \/ /\ tiff_path \in disk
          /\ disk' = disk \cup {mask_path}
          /\ pc' = "auto_visualize"
          /\ UNCHANGED <<raised, ui>>
       \/ /\ disk' \in {disk, disk \cup {mask_path}}
          /\ Raise("generate")
    /\ UNCHANGED <<session_state, Widgets, archive, trigger, Locals, History>>

\* lines 83-94: show_anns, then savefig writes visualization.png
AutoVisualize ==
    /\ pc = "auto_visualize"
    /\ \/ /\ calls' = calls \o <<"show_anns", "savefig">>
          /\ disk' = disk \cup {vis_path}
          /\ pc' = "auto_duration"
          /\ UNCHANGED <<raised, ui>>
       \/ /\ calls' = Append1(calls, "show_anns")
          /\ Raise("show_anns")
          /\ UNCHANGED disk
       \/ /\ calls' = calls \o <<"show_anns", "savefig">>
          /\ disk' \in {disk, disk \cup {vis_path}}
          /\ Raise("savefig")
    /\ UNCHANGED <<session_state, Widgets, archive, trigger, Locals, History>>

\* mutant: the two readings are subtracted the wrong way round
AutoDuration_Swapped ==
    /\ pc = "auto_duration"
    /\ \E t \in Readings(start_time) : duration' = start_time - t
    /\ calls' = Append1(calls, "time.time")
    /\ pc' = "auto_store"
    /\ UNCHANGED <<session_state, Widgets, disk, archive, trigger, todo,
                   start_time, sam, ui, raised, History>>

\* line 96
AutoDuration ==
    /\ pc = "auto_duration"
    /\ \E t \in Readings(start_time) : duration' = t - start_time
    /\ calls' = Append1(calls, "time.time")
    /\ pc' = "auto_store"
    /\ UNCHANGED <<session_state, Widgets, disk, archive, trigger, todo,
                   start_time, sam, ui, raised, History>>

\* lines 99-106
AutoResults ==
    [tiff_path |-> tiff_path, mask_path |-> mask_path,
     vector_path |-> vector_path, vis_path |-> vis_path,
     process_type |-> process_type, duration |-> duration]

AutoStore ==
    /\ pc = "auto_store"
    /\ session_state' = [session_state EXCEPT !.results = AutoResults]
    /\ ran' = [process_type |-> process_type, text_prompt |-> text_prompt]
    /\ pc' = "hide_map"
    /\ UNCHANGED <<Widgets, disk, archive, trigger, Locals, ui, calls, raised,
                   pre>>

\* line 108 (text-prompt branch), line 111
TextStartTime ==
    /\ pc = "segment"
    /\ process_type # Automatic
    /\ \E t \in 0..MaxClock : start_time' = t
    /\ calls' = Append1(calls, "time.time")
    /\ pc' = "text_model"
    /\ UNCHANGED <<session_state, Widgets, disk, archive, trigger, todo,
                   duration, sam, ui, raised, History>>

\* line 112
TextConstruct ==
    /\ pc = "text_model"
    /\ calls' = Append1(calls, "LangSAM")
    /\ \/ /\ sam' = LangSAMHandle
          /\ pc' = "text_predict"
          /\ UNCHANGED <<raised, ui>>
       \/ /\ Raise("LangSAM")
          /\ UNCHANGED sam
    /\ UNCHANGED <<session_state, Widgets, disk, archive, trigger, todo,
                   start_time, duration, History>>

\* lines 113-119
TextPredict ==
    /\ pc = "text_predict"
    /\ calls' = Append1(calls, "predict")
    /\ \/ /\ tiff_path \in disk
          /\ disk' = disk \cup {mask_path}
          /\ pc' = "text_visualize"
          /\ UNCHANGED <<raised, ui>>
       \/ /\ disk' \in {disk, disk \cup {mask_path}}
          /\ Raise("predict")
    /\ UNCHANGED <<session_state, Widgets, archive, trigger, Locals, History>>

\* lines 122-133
TextVisualize ==
    /\ pc = "text_visualize"
    /\ \/ /\ calls' = calls \o <<"show_anns", "savefig">>
          /\ disk' = disk \cup {vis_path}
          /\ pc' = "text_duration"
          /\ UNCHANGED <<raised, ui>>
       \/ /\ calls' = Append1(calls, "show_anns")
          /\ Raise("show_anns")
          /\ UNCHANGED disk
       \/ /\ calls' = calls \o <<"show_anns", "savefig">>
          /\ disk' \in {disk, disk \cup {vis_path}}
          /\ Raise("savefig")
    /\ UNCHANGED <<session_state, Widgets, archive, trigger, Locals, History>>

\* line 135
TextDuration ==
    /\ pc = "text_duration"
    /\ \E t \in Readings(start_time) : duration' = t - start_time
    /\ calls' = Append1(calls, "time.time")
    /\ pc' = "text_store"
    /\ UNCHANGED <<session_state, Widgets, disk, archive, trigger, todo,
                   start_time, sam, ui, raised, History>>

\* lines 138-147
TextResults ==
    [tiff_path |-> tiff_path, mask_path |-> mask_path,
     vector_path |-> vector_path, vis_path |-> vis_path,
     process_type |-> process_type, text_prompt |-> text_prompt,
     duration |-> duration, sam |-> sam]

TextStore ==
    /\ pc = "text_store"
    /\ session_state' = [session_state EXCEPT !.results = TextResults]
    /\ ran' = [process_type |-> process_type, text_prompt |-> text_prompt]
    /\ pc' = "hide_map"
    /\ UNCHANGED <<Widgets, disk, archive, trigger, Locals, ui, calls, raised,
                   pre>>

\* line 150
HideMap ==
    /\ pc = "hide_map"
    /\ session_state' = [session_state EXCEPT !.map_visible = FALSE]
    /\ pc' = "rerun"
    /\ UNCHANGED <<Widgets, disk, archive, trigger, Locals, ui, calls, raised,
                   History>>

\* line 151: st.rerun() abandons this script run and starts the next
RerunAfterRun ==
    /\ pc = "rerun"
    /\ StartScript("rerun_run")
    /\ UNCHANGED <<session_state, Widgets, disk, archive, History>>

-----------------------------------------------------------------------------
(* Results panel, lines 154-252 *)

\* Python truth value of st.session_state.results: None is false, the
\* stored dict is never empty
Truthy(r) == r # None

\* line 154
ResultsGuard ==
    /\ pc = "results"
    /\ pc' = IF Truthy(session_state.results) THEN "header" ELSE "idle"
    /\ UNCHANGED <<session_state, Widgets, disk, archive, trigger, Locals, ui,
                   calls, raised, History>>

\* mutant: the header is built from the widgets instead of the record
HeaderText_FromWidgets(results) ==
    <<"Ergebnisse: ",
      IF process_type = TextPrompt
      THEN text_prompt ELSE "Automatische Segmentierung">>

\* line 158
HeaderText(results) ==
    <<"Ergebnisse: ",
      IF results.process_type = TextPrompt
      THEN results.text_prompt ELSE "Automatische Segmentierung">>

\* lines 157-158
ShowHeader ==
    /\ pc = "header"
    /\ ui' = [ui EXCEPT !.success = session_state.results.duration,
                        !.header = HeaderText(session_state.results)]
    /\ pc' = "comparison"
    /\ UNCHANGED <<session_state, Widgets, disk, archive, trigger, Locals,
                   calls, raised, History>>

\* lines 162-169: the widget takes the two paths as given
ImageComparison ==
    /\ pc = "comparison"
    /\ calls' = Append1(calls, "image_comparison")
    /\ \/ /\ pc' = "result_map"
          /\ UNCHANGED <<raised, ui>>
       \/ Raise("image_comparison")
    /\ UNCHANGED <<session_state, Widgets, disk, archive, trigger, Locals,
                   History>>

\* line 176
Palette(results) ==
    IF results.process_type = Automatic THEN "viridis" ELSE "Greens"

\* lines 172-184: both rasters are read from disk
BuildResultMap ==
    /\ pc = "result_map"
    /\ calls' = Append1(calls, "add_raster")
    /\ \/ /\ session_state.results.tiff_path \in disk
          /\ session_state.results.mask_path \in disk
          /\ ui' = [ui EXCEPT !.palette = Palette(session_state.results)]
          /\ pc' = "vectorize"
          /\ UNCHANGED raised
       \/ Raise("add_raster")
    /\ UNCHANGED <<session_state, Widgets, disk, archive, trigger, Locals,
                   History>>

\* lines 187-190: the handle raster_to_vector is called on
VectorizeHandle(results) ==
    IF results.process_type = TextPrompt THEN results.sam ELSE SamGeoDefault

\* lines 187-191
Vectorize ==
    /\ pc = "vectorize"
    /\ calls' = Append1(calls, "raster_to_vector")
    /\ \/ /\ session_state.results.mask_path \in disk
          /\ disk' = disk \cup VectorFiles(session_state.results.vector_path)
          /\ ui' = [ui EXCEPT !.handle = VectorizeHandle(session_state.results)]
          /\ pc' = "add_vector"
          /\ UNCHANGED raised
       \/ /\ Raise("raster_to_vector")
          /\ UNCHANGED disk
    /\ UNCHANGED <<session_state, Widgets, archive, trigger, Locals, History>>

\* lines 194-205
AddVector ==
    /\ pc = "add_vector"
    /\ calls' = Append1(calls, "add_vector")
    /\ \/ /\ session_state.results.vector_path \in disk
          /\ pc' = "downloads"
          /\ UNCHANGED <<raised, ui>>
       \/ Raise("add_vector")
    /\ UNCHANGED <<session_state, Widgets, disk, archive, trigger, Locals,
                   History>>

\* lines 225-236: open() raises FileNotFoundError for a missing file
RasterDownloads ==
    /\ pc = "downloads"
    /\ calls' = Append1(calls, "open")
    /\ IF /\ session_state.results.mask_path \in disk
          /\ session_state.results.vis_path \in disk
       THEN /\ pc' = "zip"
            /\ UNCHANGED <<raised, ui>>
       ELSE Raise("open")
    /\ UNCHANGED <<session_state, Widgets, disk, archive, trigger, Locals,
                   History>>

\* lines 216-219: the loop over the remaining extensions
RECURSIVE ZipLoop(_, _, _)
ZipLoop(exts, base, fs) ==
    IF exts = <<>> THEN {}
    ELSE LET file_path == WithExt(base, Head(exts))
         IN (IF file_path \in fs THEN {Basename(file_path)} ELSE {})
            \cup ZipLoop(Tail(exts), base, fs)

\* mutant: every file raster_to_vector wrote is packed
create_shapefile_zip_AllSidecars(shp_path, fs) ==
    {Basename(f) : f \in VectorFiles(shp_path) \cap fs}

\* lines 210-219: the entries of the archive written for shp_path
create_shapefile_zip(shp_path, fs) ==
    ZipLoop(extensions, SplitextBase(shp_path), fs)

\* lines 239-246
ShapefileDownload ==
    /\ pc = "zip"
    /\ archive' = create_shapefile_zip(session_state.results.vector_path, disk)
    /\ disk' = disk \cup {zip_path}
    /\ calls' = Append1(calls, "create_shapefile_zip")
    /\ ui' = [ui EXCEPT !.downloads = TRUE]
    /\ pc' = "reset_button"
    /\ UNCHANGED <<session_state, Widgets, trigger, Locals, raised, History>>

\* mutant: the reset forgets to show the map again
ResetButton_KeepsMapHidden ==
    /\ pc = "reset_button"
    /\ IF trigger = "reset"
       THEN /\ session_state' = [session_state EXCEPT !.results = None]
            /\ ran' = NoRun
            /\ StartScript("rerun_reset")
            /\ UNCHANGED pre
       ELSE /\ ui' = [ui EXCEPT !.reset = TRUE]
            /\ pc' = "idle"
            /\ UNCHANGED <<session_state, trigger, Locals, calls, raised,
                           History>>
    /\ UNCHANGED <<Widgets, disk, archive>>

\* lines 249-252
ResetButton ==
    /\ pc = "reset_button"
    /\ IF trigger = "reset"
       THEN /\ session_state' = [session_state EXCEPT !.results = None,
                                                      !.map_visible = TRUE]
            /\ ran' = NoRun
            /\ StartScript("rerun_reset")
            /\ UNCHANGED pre
       ELSE /\ ui' = [ui EXCEPT !.reset = TRUE]
            /\ pc' = "idle"
            /\ UNCHANGED <<session_state, trigger, Locals, calls, raised,
                           History>>
    /\ UNCHANGED <<Widgets, disk, archive>>

-----------------------------------------------------------------------------
(* The page is opened: nothing in the session, all widgets at their         *)
(* defaults; the working directory may hold the outputs of an earlier      *)
(* session                                                                 *)

InitialDisks == SUBSET {tiff_path, mask_path, vector_path}

Init ==
    /\ session_state = [k \in {} |-> None]
    /\ process_type = Automatic
    /\ text_prompt = DefaultPrompt
    /\ box_threshold = DefaultThreshold
    /\ text_threshold = DefaultThreshold
    /\ bbox = DefaultBBox
    /\ disk \in InitialDisks
    /\ archive = {}
    /\ pc = "init"
    /\ trigger = "load"
    /\ todo = <<>>
    /\ start_time = 0
    /\ duration = 0
    /\ sam = NoSam
    /\ ui = BlankUI
    /\ calls = <<>>
    /\ raised = "none"
    /\ pre = [k \in {} |-> None]
    /\ ran = NoRun

Next ==
    \/ EditBoundingBox \/ SwitchMode \/ EditPrompt
    \/ MoveBoxThreshold \/ MoveTextThreshold
    \/ PressRun \/ PressDownload \/ PressReset
    \/ Initialize \/ RenderInputPanel \/ RunButton
    \/ RemoveOldFile \/ DownloadTile
    \/ AutoStartTime \/ AutoConstruct \/ AutoGenerate \/ AutoVisualize
    \/ AutoDuration \/ AutoStore
    \/ TextStartTime \/ TextConstruct \/ TextPredict \/ TextVisualize
    \/ TextDuration \/ TextStore
    \/ HideMap \/ RerunAfterRun
    \/ ResultsGuard \/ ShowHeader \/ ImageComparison \/ BuildResultMap
    \/ Vectorize \/ AddVector \/ RasterDownloads \/ ShapefileDownload
    \/ ResetButton

Spec == Init /\ [][Next]_vars

-----------------------------------------------------------------------------
(* create_shapefile_zip on every content of the working directory: the     *)
(* script stands at line 239 of a results panel and the directory holds    *)
(* any subset of the files the program knows                               *)

InitZip ==
    /\ session_state =
           [results |-> [tiff_path |-> tiff_path, mask_path |-> mask_path,
                         vector_path |-> vector_path, vis_path |-> vis_path,
                         process_type |-> Automatic, duration |-> 0],
            map_visible |-> FALSE]
    /\ process_type = Automatic
    /\ text_prompt = DefaultPrompt
    /\ box_threshold = DefaultThreshold
    /\ text_threshold = DefaultThreshold
    /\ bbox = DefaultBBox
    /\ disk \in SUBSET Files
    /\ archive = {}
    /\ pc = "zip"
    /\ trigger = "widget"
    /\ todo = <<>>
    /\ start_time = 0
    /\ duration = 0
    /\ sam = NoSam
    /\ ui = [BlankUI EXCEPT !.success = 0,
                            !.header = <<"Ergebnisse: ", Automatic>>,
                            !.palette = "viridis", !.handle = SamGeoDefault]
    /\ calls = <<"image_comparison", "add_raster", "raster_to_vector",
                 "add_vector", "open">>
    /\ raised = "none"
    /\ pre = [results |-> None, map_visible |-> TRUE]
    /\ ran = [process_type |-> Automatic, text_prompt |-> DefaultPrompt]

NextZip == ShapefileDownload \/ ResetButton

SpecZip == InitZip /\ [][NextZip]_vars

-----------------------------------------------------------------------------
(* Properties *)

InitialSessionState == InitializeState([k \in {} |-> None])

RunHandlerPcs ==
    {"cleanup", "download", "segment", "auto_model", "auto_generate",
     "auto_visualize", "auto_duration", "auto_store", "text_model",
     "text_predict", "text_visualize", "text_duration", "text_store",
     "hide_map", "rerun"}

RunHandlerCalls ==
    {"os.remove", "map_tiles_to_geotiff", "time.time", "SamGeo", "generate",
     "LangSAM", "predict", "show_anns", "savefig"}

DownloaderOrModelCalls ==
    {"map_tiles_to_geotiff", "SamGeo", "generate", "LangSAM", "predict"}

\* the calls of the script run that are not os.remove
AfterRemovals == SelectSeq(calls, LAMBDA c : c # "os.remove")

\* C1: the script run that the reset button's st.rerun() starts sees
\* results = None and map_visible = True, the state lines 16-19 set on the
\* first load
C1_ResetRestoresInitialState ==
    trigger = "rerun_reset" => session_state = InitialSessionState

C1_Witness ==
    /\ trigger = "rerun_reset"
    /\ pc = "idle"
    /\ ui.map
    /\ ~ui.reset
    /\ zip_path \in disk

\* C2: when a call of the run handler raises, st.session_state is what it
\* was when the run button was pressed
C2_FailedRunKeepsSessionState ==
    (trigger = "run" /\ raised # "none") => session_state = pre

C2_Witness ==
    /\ trigger = "run"
    /\ raised = "predict"
    /\ Truthy(pre.results)
    /\ mask_path \notin disk

\* C3 as stated: a run that fails in the downloader or in a model call
\* leaves results = None and map_visible = True, wherever it started
C3_FailedRunLeavesInput ==
    (trigger = "run" /\ raised \in DownloaderOrModelCalls)
        => /\ session_state.results = None
           /\ session_state.map_visible = TRUE

\* C3 amended: such a run leaves the Input state when it was started in the
\* Input state; started in a Results state it leaves the old results record
\* in place and the map hidden; the script run draws no results panel
C3_FailedRunLeavesStartState ==
    (trigger = "run" /\ raised \in DownloaderOrModelCalls)
        => /\ ui.header = NoHeader
           /\ ui.error
           /\ IF pre.results = None
              THEN /\ session_state.results = None
                   /\ session_state.map_visible = TRUE
              ELSE /\ session_state.results = pre.results
                   /\ session_state.map_visible = FALSE

C3_Witness ==
    /\ trigger = "run"
    /\ raised = "map_tiles_to_geotiff"
    /\ pc = "idle"
    /\ Truthy(session_state.results)
    /\ ~session_state.map_visible

\* C4: when map_tiles_to_geotiff is about to be called, none of
\* satellite.tif, masks.tif, masks.shp is on disk, and nothing but os.remove
\* has been called in the script run
C4_OutputsAbsentBeforeDownload ==
    /\ pc = "download" =>
           /\ <<".", "satellite", ".tif">> \notin disk
           /\ <<".", "masks", ".tif">> \notin disk
           /\ <<".", "masks", ".shp">> \notin disk
    /\ pc \in {"cleanup", "download"} => AfterRemovals = <<>>

C4_Witness ==
    /\ pc = "download"
    /\ Truthy(session_state.results)
    /\ calls = <<"os.remove", "os.remove", "os.remove">>

\* C5: after create_shapefile_zip the archive holds the base name of each of
\* masks.shp, masks.shx, masks.dbf, masks.prj that is on disk and no other
\* entry, whatever subset of them is on disk, and no exception was raised
C5_ZipHoldsPresentSidecars ==
    (pc = "reset_button" /\ Called("create_shapefile_zip"))
        => /\ archive =
                {<<"masks", e>> : e \in
                    {x \in {".shp", ".shx", ".dbf", ".prj"} :
                        <<".", "masks", x>> \in disk}}
           /\ raised = "none"

C5_Witness ==
    /\ pc = "reset_button"
    /\ archive = {<<"masks", ".shp">>, <<"masks", ".dbf">>}
    /\ <<".", "masks", ".cpg">> \in disk

\* C6: in an automatic run without a failure the tile, the mask and the
\* image are written in this order between the two clock readings, the
\* results record is stored only afterwards, the vector file is not written
\* by the run handler, and the stored duration is the second reading minus
\* the first and is not negative
C6_AutomaticRunOrder ==
    /\ (trigger = "run" /\ pc \in RunHandlerPcs \ {"hide_map", "rerun"})
           => session_state = pre
    /\ (trigger = "run" /\ pc \in RunHandlerPcs \ {"cleanup"})
           => vector_path \notin disk
    /\ (trigger = "run" /\ process_type = Automatic
                        /\ pc \in {"hide_map", "rerun"})
           => /\ AfterRemovals =
                    <<"map_tiles_to_geotiff", "time.time", "SamGeo",
                      "generate", "show_anns", "savefig", "time.time">>
              /\ {tiff_path, mask_path, vis_path} \subseteq disk
              /\ session_state.results.duration = duration
              /\ duration >= 0
              /\ pc = "rerun" => session_state.map_visible = FALSE
    /\ Called("raster_to_vector") => pc \notin RunHandlerPcs

C6_Witness ==
    /\ trigger = "run"
    /\ process_type = Automatic
    /\ pc = "rerun"
    /\ session_state.results.duration = MaxClock
    /\ ~session_state.map_visible

\* C7: the header, the palette and the vectorization handle of the results
\* panel follow the mode and prompt of the run that stored the record, not
\* the current widgets
C7_PanelShowsRecordedRun ==
    /\ ui.header # NoHeader =>
           ui.header = <<"Ergebnisse: ",
                         IF ran.process_type = TextPrompt
                         THEN ran.text_prompt ELSE Automatic>>
    /\ ui.palette # "none" =>
           ui.palette = (IF ran.process_type = Automatic
                         THEN "viridis" ELSE "Greens")
    /\ ui.handle # NoSam =>
           ui.handle = (IF ran.process_type = TextPrompt
                        THEN LangSAMHandle ELSE SamGeoDefault)

C7_Witness ==
    /\ pc = "idle"
    /\ ui.reset
    /\ ui.header = <<"Ergebnisse: ", "car">>
    /\ ui.palette = "Greens"
    /\ ui.handle = LangSAMHandle
    /\ process_type = Automatic
    /\ trigger = "widget"

\* C8: once lines 16-19 have created them, results and map_visible change
\* only in the store / hide steps of a run started by the run button and in
\* the reset handler; the run handler is entered and its calls are made only
\* in a script run that the run button started
C8_SessionChange ==
    session_state' # session_state =>
        \/ pc = "init" /\ DOMAIN session_state = {}
        \/ trigger = "run" /\ pc \in {"auto_store", "text_store", "hide_map"}
        \/ trigger = "reset" /\ pc = "reset_button"

C8_OnlyRunPressEntersHandler ==
    trigger # "run" =>
        /\ pc \notin RunHandlerPcs
        /\ \A k \in 1..Len(calls) : calls[k] \notin RunHandlerCalls

C8_OnlyRunAndResetChangeSession ==
    [][C8_SessionChange]_vars /\ []C8_OnlyRunPressEntersHandler

C8_Witness ==
    /\ pc = "idle"
    /\ trigger = "download"
    /\ ui.reset
    /\ Truthy(session_state.results)
    /\ bbox # DefaultBBox

\* C9 as stated: a failed deletion is ignored, so it never ends the script
\* run with a traceback
C9_DeletionFailureIgnored ==
    raised = "os.remove" => ~ui.error

\* C9 amended: a path with no file is skipped, and a failed deletion ends
\* the script run at once: the file stays, no further call is made and the
\* tile is not downloaded
C9_DeletionFailureAborts ==
    /\ raised = "os.remove" =>
           /\ pc = "idle"
           /\ ui.error
           /\ calls[Len(calls)] = "os.remove"
           /\ Head(todo) \in disk
           /\ session_state = pre
    /\ pc = "download" => raised = "none"

C9_Witness ==
    /\ raised = "os.remove"
    /\ Head(todo) = mask_path
    /\ tiff_path \notin disk
    /\ vector_path \in disk

\* C10 as stated: whenever a script run has ended with a results record in
\* the session, the reset button is on the page
C10_ResetAlwaysExposed ==
    (pc = "idle" /\ Truthy(session_state.results)) => ui.reset

====
